---------------------------- MODULE Spec2Model ----------------------------
(***************************************************************************)
(* The control plane of the spine-leaf fabric.                             *)
(*                                                                         *)
(* Part I models the controller application SpineLeaf3                     *)
(* (ryu_controller/spine_leaf_controller.py) with the helpers it inherits  *)
(* from BaseSwitch (ryu_controller/base_switch.py), over the static        *)
(* network description `net` of the emulated fabric built by               *)
(* mininet/spine_leaf.py.  Its specification is Spec.                      *)
(*                                                                         *)
(* Part II models topology reconciliation: the derived maps                *)
(* switch_neighbors, uplink_ports and host_ports that the exporter         *)
(* (ryu_controller/metrics_exporter.py) reads from its controller, the     *)
(* rebuild that derives them and the multipath group of each leaf.  Its    *)
(* specifications are SpecTopo and, with a fair periodic timer,            *)
(* SpecTopoFair.                                                           *)
(*                                                                         *)
(* Part III models the packet-in handler that goes with the maps of        *)
(* Part II: the location tables, the IP-to-MAC table and the forwarding    *)
(* decision.  Its specifications are SpecFwd and, on the frames that the   *)
(* IP-to-MAC table is followed on, SpecArp.                                *)
(***************************************************************************)
EXTENDS Integers, Sequences, FiniteSets, TLC

(***************************************************************************)
(* Bounds of the model.                                                    *)
(***************************************************************************)
\* number of leaf switches of the fabric
NumLeaves == 2
\* hosts attached to every leaf
HostsPerLeaf == 1
\* number of concurrent iperf pairs, each on a TCP/UDP port of its own
MaxPairs == 2
\* number of link events of the discovery
MaxFlaps == 3

(***************************************************************************)
(* Program constants.                                                      *)
(***************************************************************************)
NumSpines == 2

ENTRY_TABLE == 0
LOCAL_TABLE == 0
REMOTE_TABLE == 1

MIN_PRIORITY == 0
LOW_PRIORITY == 100
MID_PRIORITY == 300

LONG_IDLE_TIME == 60
MID_IDLE_TIME == 40
IDLE_TIME == 30

\* OpenFlow 1.3 reserved ports 0xfffffffc and 0xfffffffd, read as signed
\* 32-bit words, and the reserved table number
OFPP_ALL == -4
OFPP_CONTROLLER == -3
OFPTT_ALL == 255

\* first port of the iperf pairs
IperfPort == 5001

\* protocol names (the keys of header_list)
ETHERNET == "ethernet"
IPV4 == "ipv4"
ARP == "arp"
ICMP == "icmp"
TCP == "tcp"
UDP == "udp"

(***************************************************************************)
(* The static network description `net`.  Spines have the datapath ids     *)
(* 1..NumSpines, leaves the following ones.  On a leaf the hosts take the  *)
(* first ports and the spines the next ones; on a spine, leaf number l is  *)
(* on port l.                                                              *)
(***************************************************************************)
net_spines == [i \in 1..NumSpines |-> i]

net_leaves == [i \in 1..NumLeaves |-> NumSpines + i]

Range(s) == {s[i] : i \in DOMAIN s}

Spines == Range(net_spines)

Leaves == Range(net_leaves)

Switches == Spines \cup Leaves

\* net.links[a, b]["port"]: the port of switch a on its link to switch b
net_links(a, b) == IF a \in Leaves THEN HostsPerLeaf + b ELSE b - NumSpines

\* the ports of a leaf: the host-facing ones and the uplinks
LeafHostPorts == 1..HostsPerLeaf

LeafUplinkPorts == {net_links(net_leaves[1], s) : s \in Spines}

LeafPorts == LeafHostPorts \cup LeafUplinkPorts

(***************************************************************************)
(* Frames.  A frame is the dictionary header_list of its decoded headers   *)
(* together with the fields the handler reads.  Two hosts send, AA and BB, *)
(* to each other or to everybody.                                          *)
(***************************************************************************)
MACs == {"AA", "BB"}

BROADCAST == "ff:ff:ff:ff:ff:ff"

\* the hosts' addresses 10.0.0.<leaf><host>, and the subnet's broadcast address
IpOf(mac) ==
    IF mac = "AA" THEN <<10, 0, 0, 11>>
    ELSE IF mac = "BB" THEN <<10, 0, 0, 21>>
    ELSE <<10, 0, 0, 255>>

NoIp == <<0, 0, 0, 0>>

L4Ports == {IperfPort + i : i \in 0..(MaxPairs - 1)}

\* an ARP packet carries its sender's address and asks for, or answers to,
\* the other host's
ArpFrames ==
    {f \in [headers : {{ETHERNET, ARP}}, src : MACs, dst : MACs \cup {BROADCAST},
            opcode : {"request", "reply"},
            src_ip : {IpOf(m) : m \in MACs}, dst_ip : {IpOf(m) : m \in MACs},
            src_port : {0}, dst_port : {0}] :
        /\ f.dst # f.src
        /\ f.src_ip = IpOf(f.src)
        /\ f.dst_ip # f.src_ip}

\* an iperf client's segment or datagram to the port of its pair, or a ping
Ipv4Frames ==
    {f \in [headers : {{ETHERNET, IPV4, TCP}, {ETHERNET, IPV4, UDP}, {ETHERNET, IPV4, ICMP}},
            src : MACs, dst : MACs \cup {BROADCAST}, opcode : {"-"},
            src_ip : {IpOf(m) : m \in MACs},
            dst_ip : {IpOf(m) : m \in MACs \cup {BROADCAST}},
            src_port : {0, IperfPort}, dst_port : L4Ports \cup {0}] :
        /\ f.dst # f.src
        /\ f.src_ip = IpOf(f.src)
        /\ f.dst_ip = IpOf(f.dst)
        /\ (ICMP \in f.headers) => (f.src_port = 0 /\ f.dst_port = 0)
        /\ (ICMP \notin f.headers) => (f.src_port # 0 /\ f.dst_port # 0)}

\* any other payload
OtherFrames ==
    {f \in [headers : {{ETHERNET}}, src : MACs, dst : MACs \cup {BROADCAST},
            opcode : {"-"}, src_ip : {NoIp}, dst_ip : {NoIp},
            src_port : {0}, dst_port : {0}] :
        f.dst # f.src}

Frames == ArpFrames \cup Ipv4Frames \cup OtherFrames

\* a frame too short to hold an Ethernet header: the parser stops before the
\* first protocol, and header_list is empty
RuntFrames ==
    {[headers |-> {}, src |-> "-", dst |-> "-", opcode |-> "runt",
      src_ip |-> NoIp, dst_ip |-> NoIp, src_port |-> 0, dst_port |-> 0]}

NoFrame ==
    [headers |-> {}, src |-> "-", dst |-> "-", opcode |-> "-",
     src_ip |-> NoIp, dst_ip |-> NoIp, src_port |-> 0, dst_port |-> 0]

(***************************************************************************)
(* State.                                                                  *)
(***************************************************************************)
VARIABLES
    mac_table,   \* SpineLeaf3.mac_table: MAC -> [port, dpid]
    datapaths,   \* the switches get_datapath() finds: the connected ones
    ev,          \* the event the last handler ran on
    sent,        \* the messages that handler sent, in order
    raised,      \* whether that handler ended by raising
    notified,    \* the flow-mod and packet-out notifications that handler
                 \* gave self.metrics, in order
    flow_entries_count, \* SpineLeaf3.flow_entries_count: <<dpid, table_id>> ->
                        \* number of flow entries
    links,            \* the link list of the discovery: pairs <<leaf, spine>>
    flaps,            \* how many times that list has changed
    switch_neighbors, \* switch -> (neighbor switch -> local port)
    uplink_ports,     \* switch -> set of ports
    host_ports,       \* switch -> set of ports
    groups,           \* switch -> its group table
    pc,               \* task -> "idle" or "install"
    todo,             \* task -> the switches its rebuild has still to go through
    coarse_location,  \* MAC -> switch
    host_locations,   \* MAC -> [dpid, port]
    ip_to_mac         \* IP -> MAC

\* the state of Part II
topo == <<links, flaps, switch_neighbors, uplink_ports, host_ports, groups, pc, todo>>

\* the state of Part III
hosts == <<coarse_location, host_locations, ip_to_mac>>

vars == <<mac_table, datapaths, ev, sent, raised, notified, flow_entries_count,
          topo, hosts>>

(***************************************************************************)
(* BaseSwitch: the messages.                                               *)
(***************************************************************************)
add_flow(datapath, table_id, priority, match, inst, i_time) ==
    [type |-> "flow_mod", command |-> "add", datapath |-> datapath,
     table_id |-> table_id, priority |-> priority, idle_timeout |-> i_time,
     hard_timeout |-> 0, match |-> match, instructions |-> inst]

del_flow(datapath) ==
    [type |-> "flow_mod", command |-> "delete", datapath |-> datapath,
     table_id |-> OFPTT_ALL, priority |-> 0, idle_timeout |-> 0,
     hard_timeout |-> 0, match |-> [any |-> TRUE], instructions |-> <<>>]

\* (mutant) the packet-out also outputs to the controller
forward_packet_and_controller(datapath, data, in_port, out_port) ==
    [type |-> "packet_out", datapath |-> datapath, in_port |-> in_port,
     actions |-> <<[output |-> out_port], [output |-> OFPP_CONTROLLER]>>,
     data |-> data]

forward_packet(datapath, data, in_port, out_port) ==
    [type |-> "packet_out", datapath |-> datapath, in_port |-> in_port,
     actions |-> <<[output |-> out_port]>>, data |-> data]

OFPFlowStatsRequest(datapath) ==
    [type |-> "flow_stats_request", datapath |-> datapath]

\* OFPInstructionActions(OFPIT_APPLY_ACTIONS, [OFPActionOutput(p), ...])
ApplyOutputs(ports) ==
    <<[apply_actions |-> [i \in DOMAIN ports |-> [output |-> ports[i]]]]>>

GotoTable(t) == <<[goto_table |-> t]>>

(***************************************************************************)
(* SpineLeaf3: the helpers of the packet-in handler.                       *)
(***************************************************************************)
\* get_datapath(app, dpid): the datapath of a connected switch, else None (0)
get_datapath(dpid) == IF dpid \in datapaths THEN dpid ELSE 0

IsNone(datapath) == datapath = 0

\* (mutant) a port holds one MAC: the MACs recorded at the port are dropped
update_mac_table_one_per_port(table, src, port, dpid) ==
    [m \in {x \in DOMAIN table : table[x] # [port |-> port, dpid |-> dpid]} \cup {src} |->
        IF m = src THEN [port |-> port, dpid |-> dpid] ELSE table[m]]

\* (mutant) a MAC already recorded keeps its port, and takes the new switch
update_mac_table_keep_port(table, src, port, dpid) ==
    [m \in DOMAIN table \cup {src} |->
        IF m = src
        THEN [port |-> IF src \in DOMAIN table THEN table[src].port ELSE port,
              dpid |-> dpid]
        ELSE table[m]]

\* (mutant) the first location learned for a MAC is kept
update_mac_table_once(table, src, port, dpid) ==
    [m \in DOMAIN table \cup {src} |->
        IF m \in DOMAIN table THEN table[m] ELSE [port |-> port, dpid |-> dpid]]

\* the table with the entry of src set to the ingress port and switch
update_mac_table(table, src, port, dpid) ==
    [m \in DOMAIN table \cup {src} |->
        IF m = src THEN [port |-> port, dpid |-> dpid] ELSE table[m]]

\* (protocol, src_ip, dst_ip, src_port, dst_port) of an IPv4 packet
get_ipv4_packet_info(pkt) ==
    IF TCP \in pkt.headers
    THEN <<TCP, pkt.src_ip, pkt.dst_ip, pkt.src_port, pkt.dst_port>>
    ELSE IF UDP \in pkt.headers
    THEN <<UDP, pkt.src_ip, pkt.dst_ip, pkt.src_port, pkt.dst_port>>
    ELSE <<ICMP, pkt.src_ip, pkt.dst_ip, 0, 0>>

\* sum(map(int, ip.split("."))): the sum of the octets of a dotted address
RECURSIVE SumOctets(_)
SumOctets(ip) == IF ip = <<>> THEN 0 ELSE Head(ip) + SumOctets(Tail(ip))

\* (mutant) the remainder is taken modulo one more than the number of spines
select_spine_one_too_many(packet_info, num_spines) ==
    (SumOctets(packet_info[2]) + SumOctets(packet_info[3])
        + packet_info[4] + packet_info[5]) % (num_spines + 1)

\* (mutant) the hash takes the source address and port alone
select_spine_by_source(packet_info, num_spines) ==
    (SumOctets(packet_info[2]) + packet_info[4]) % num_spines

\* (mutant) the hash leaves the ports out
select_spine_without_ports(packet_info, num_spines) ==
    (SumOctets(packet_info[2]) + SumOctets(packet_info[3])) % num_spines

\* the index into net.spines (from 0) the flow hashes to
select_spine_from_packet_info(packet_info, num_spines) ==
    (SumOctets(packet_info[2]) + SumOctets(packet_info[3])
        + packet_info[4] + packet_info[5]) % num_spines

\* the match on the flow of packet_info: addresses, and ports for TCP and UDP
FlowMatch(packet_info) ==
    IF packet_info[1] = TCP
    THEN [eth_type |-> "ETH_TYPE_IP", ipv4_src |-> packet_info[2],
          ipv4_dst |-> packet_info[3], ip_proto |-> "IPPROTO_TCP",
          tcp_src |-> packet_info[4], tcp_dst |-> packet_info[5]]
    ELSE IF packet_info[1] = UDP
    THEN [eth_type |-> "ETH_TYPE_IP", ipv4_src |-> packet_info[2],
          ipv4_dst |-> packet_info[3], ip_proto |-> "IPPROTO_UDP",
          udp_src |-> packet_info[4], udp_dst |-> packet_info[5]]
    ELSE [eth_type |-> "ETH_TYPE_IP", ipv4_src |-> packet_info[2],
          ipv4_dst |-> packet_info[3]]

create_match_entry_at_leaf(datapath, table, priority, idle_time, packet_info, out_port) ==
    add_flow(datapath, table, priority, FlowMatch(packet_info),
             ApplyOutputs(<<out_port>>), idle_time)

\* (mutant) the rule of the spine matches on any ingress port
create_match_entry_at_spine_any_port(datapath, table, priority, packet_info, in_port, out_port, i_time) ==
    add_flow(datapath, table, priority, FlowMatch(packet_info),
             ApplyOutputs(<<out_port>>), i_time)

\* the same match as on the leaf, on the ingress port in_port as well
create_match_entry_at_spine(datapath, table, priority, packet_info, in_port, out_port, i_time) ==
    add_flow(datapath, table, priority,
             [f \in DOMAIN FlowMatch(packet_info) \cup {"in_port"} |->
                 IF f = "in_port" THEN in_port ELSE FlowMatch(packet_info)[f]],
             ApplyOutputs(<<out_port>>), i_time)

\* the notifications of flow-mods and packet-outs to self.metrics
Notification(metric, dpid, op, port) ==
    [metric |-> metric, dpid |-> dpid, op |-> op, port |-> port]

\* (mutant) the notification does not say which switch
increment_flow_mod_unlabelled(dpid, op) == Notification("flow_mod", 0, op, 0)

increment_flow_mod(dpid, op) == Notification("flow_mod", dpid, op, 0)

increment_packets_flooded(dpid) == Notification("packets_flooded", dpid, "-", 0)

increment_packets_forwarded(dpid, port) ==
    Notification("packets_forwarded", dpid, "-", port)

\* the orders in which a loop may run over the set S
Orders(S) ==
    {o \in [1..Cardinality(S) -> S] : \A i, j \in DOMAIN o : o[i] = o[j] => i = j}

\* (mutant) the flood with in_port and out_port exchanged
FloodRemote_swapped(pkt, remote_switches) ==
    LET down == {i \in DOMAIN remote_switches : IsNone(get_datapath(remote_switches[i]))}
        n == IF down = {} THEN Len(remote_switches)
             ELSE (CHOOSE i \in down : \A j \in down : i <= j) - 1
    IN [sent |-> [i \in 1..n |->
                    forward_packet(get_datapath(remote_switches[i]), pkt,
                                   OFPP_ALL, OFPP_CONTROLLER)],
        raised |-> down # {},
        notified |-> [i \in 1..n |-> increment_packets_flooded(remote_switches[i])]]

\* The loop "for leaf in remote_switches": a packet-out to all ports of
\* every remote leaf in turn; the first one that is not connected ends the
\* handler (forward_packet reads dpath.ofproto of None).
FloodRemote(pkt, remote_switches) ==
    LET down == {i \in DOMAIN remote_switches : IsNone(get_datapath(remote_switches[i]))}
        n == IF down = {} THEN Len(remote_switches)
             ELSE (CHOOSE i \in down : \A j \in down : i <= j) - 1
    IN [sent |-> [i \in 1..n |->
                    forward_packet(get_datapath(remote_switches[i]), pkt,
                                   OFPP_CONTROLLER, OFPP_ALL)],
        raised |-> down # {},
        notified |-> [i \in 1..n |-> increment_packets_flooded(remote_switches[i])]]

\* (mutant) the spine's rule goes to the first spine, whatever the leaf's
\* rule outputs to
ForwardRemote_first_spine(dpid, pkt, dst_host) ==
    LET packet_info == get_ipv4_packet_info(pkt)
        spine_id == net_spines[select_spine_from_packet_info(packet_info, Len(net_spines)) + 1]
        upstream_port == net_links(dpid, spine_id)
        at_leaf == create_match_entry_at_leaf(dpid, REMOTE_TABLE, MID_PRIORITY,
                                              IDLE_TIME, packet_info, upstream_port)
        spine_datapath == get_datapath(net_spines[1])
        dst_datapath == get_datapath(dst_host.dpid)
        spine_ingress_port == net_links(net_spines[1], dpid)
        spine_egress_port == net_links(net_spines[1], dst_datapath)
        at_spine == create_match_entry_at_spine(spine_datapath, ENTRY_TABLE, MID_PRIORITY,
                                                packet_info, spine_ingress_port,
                                                spine_egress_port, MID_IDLE_TIME)
        out == forward_packet(dst_datapath, pkt, OFPP_CONTROLLER, dst_host.port)
    IN  IF IsNone(dst_datapath) \/ IsNone(spine_datapath)
        THEN [sent |-> <<at_leaf>>, raised |-> TRUE,
              notified |-> <<increment_flow_mod(dpid, "add")>>]
        ELSE [sent |-> <<at_leaf, at_spine, out>>, raised |-> FALSE,
              notified |-> <<increment_flow_mod(dpid, "add"),
                             increment_flow_mod(net_spines[1], "add"),
                             increment_packets_forwarded(dst_datapath, dst_host.port)>>]

\* The branch of a destination found on a remote leaf: a rule on the
\* originating leaf towards the selected spine, a rule on that spine, and
\* the packet sent out at the destination's leaf.
ForwardRemote(dpid, pkt, dst_host) ==
    LET packet_info == get_ipv4_packet_info(pkt)
        spine_id == net_spines[select_spine_from_packet_info(packet_info, Len(net_spines)) + 1]
        upstream_port == net_links(dpid, spine_id)
        at_leaf == create_match_entry_at_leaf(dpid, REMOTE_TABLE, MID_PRIORITY,
                                              IDLE_TIME, packet_info, upstream_port)
        spine_datapath == get_datapath(spine_id)
        dst_datapath == get_datapath(dst_host.dpid)
        spine_ingress_port == net_links(spine_id, dpid)
        spine_egress_port == net_links(spine_id, dst_datapath)
        at_spine == create_match_entry_at_spine(spine_datapath, ENTRY_TABLE, MID_PRIORITY,
                                                packet_info, spine_ingress_port,
                                                spine_egress_port, MID_IDLE_TIME)
        out == forward_packet(dst_datapath, pkt, OFPP_CONTROLLER, dst_host.port)
    IN  IF IsNone(dst_datapath) \/ IsNone(spine_datapath)
        THEN [sent |-> <<at_leaf>>, raised |-> TRUE,
              notified |-> <<increment_flow_mod(dpid, "add")>>]
        ELSE [sent |-> <<at_leaf, at_spine, out>>, raised |-> FALSE,
              notified |-> <<increment_flow_mod(dpid, "add"),
                             increment_flow_mod(spine_id, "add"),
                             increment_packets_forwarded(dst_datapath, dst_host.port)>>]

\* (mutant) a destination recorded on the same leaf gets a rule and the frame
HandleIpv4_local_rule(table, dpid, in_port, pkt, remote_switches) ==
    LET back == add_flow(dpid, LOCAL_TABLE, LOW_PRIORITY, [eth_dst |-> pkt.src],
                         ApplyOutputs(<<in_port>>), LONG_IDLE_TIME)
        rest == IF pkt.dst \in DOMAIN table
                THEN IF table[pkt.dst].dpid \in Range(remote_switches)
                     THEN ForwardRemote(dpid, pkt, table[pkt.dst])
                     ELSE [sent |-> <<add_flow(dpid, LOCAL_TABLE, LOW_PRIORITY,
                                               [eth_dst |-> pkt.dst],
                                               ApplyOutputs(<<table[pkt.dst].port>>),
                                               LONG_IDLE_TIME),
                                      forward_packet(dpid, pkt, in_port,
                                                     table[pkt.dst].port)>>,
                           raised |-> FALSE,
                           notified |-> <<increment_flow_mod(dpid, "add"),
                                          increment_packets_forwarded(
                                              dpid, table[pkt.dst].port)>>]
                ELSE FloodRemote(pkt, remote_switches)
    IN [sent |-> <<back>> \o rest.sent, raised |-> rest.raised,
        notified |-> <<increment_flow_mod(dpid, "add")>> \o rest.notified]

\* (mutant) no rule for the way back when the destination is not recorded
HandleIpv4_no_reverse_rule(table, dpid, in_port, pkt, remote_switches) ==
    LET back == add_flow(dpid, LOCAL_TABLE, LOW_PRIORITY, [eth_dst |-> pkt.src],
                         ApplyOutputs(<<in_port>>), LONG_IDLE_TIME)
        rest == IF table[pkt.dst].dpid \in Range(remote_switches)
                THEN ForwardRemote(dpid, pkt, table[pkt.dst])
                ELSE [sent |-> <<>>, raised |-> FALSE, notified |-> <<>>]
    IN IF pkt.dst \in DOMAIN table
       THEN [sent |-> <<back>> \o rest.sent, raised |-> rest.raised,
             notified |-> <<increment_flow_mod(dpid, "add")>> \o rest.notified]
       ELSE FloodRemote(pkt, remote_switches)

\* (mutant) a destination recorded on another switch ends the handler
HandleIpv4_early_exit(table, dpid, in_port, pkt, remote_switches) ==
    IF pkt.dst \in DOMAIN table
    THEN IF table[pkt.dst].dpid # dpid
         THEN [sent |-> <<>>, raised |-> FALSE, notified |-> <<>>]
         ELSE [sent |-> <<add_flow(dpid, LOCAL_TABLE, LOW_PRIORITY,
                                   [eth_dst |-> pkt.src],
                                   ApplyOutputs(<<in_port>>), LONG_IDLE_TIME)>>,
               raised |-> FALSE,
               notified |-> <<increment_flow_mod(dpid, "add")>>]
    ELSE LET rest == FloodRemote(pkt, remote_switches)
         IN  [sent |-> <<add_flow(dpid, LOCAL_TABLE, LOW_PRIORITY,
                                  [eth_dst |-> pkt.src],
                                  ApplyOutputs(<<in_port>>), LONG_IDLE_TIME)>>
                       \o rest.sent,
              raised |-> rest.raised,
              notified |-> <<increment_flow_mod(dpid, "add")>> \o rest.notified]

\* (mutant) whatever was decided for the destination, the frame is then sent
\* out on the leaf it came from, on all ports and to the controller
HandleIpv4_post_flood(table, dpid, in_port, pkt, remote_switches) ==
    LET back == add_flow(dpid, LOCAL_TABLE, LOW_PRIORITY, [eth_dst |-> pkt.src],
                         ApplyOutputs(<<in_port>>), LONG_IDLE_TIME)
        rest == IF pkt.dst \in DOMAIN table
                THEN IF table[pkt.dst].dpid \in Range(remote_switches)
                     THEN ForwardRemote(dpid, pkt, table[pkt.dst])
                     ELSE [sent |-> <<>>, raised |-> FALSE, notified |-> <<>>]
                ELSE FloodRemote(pkt, remote_switches)
        flood == [type |-> "packet_out", datapath |-> dpid, in_port |-> in_port,
                  actions |-> <<[output |-> OFPP_ALL], [output |-> OFPP_CONTROLLER]>>,
                  data |-> pkt]
    IN [sent |-> <<back>> \o rest.sent \o <<flood>>, raised |-> rest.raised,
        notified |-> <<increment_flow_mod(dpid, "add")>> \o rest.notified
                     \o <<increment_packets_flooded(dpid)>>]

\* The IPv4 branch: the rule for the way back to the source, then the
\* packet towards its destination.
HandleIpv4(table, dpid, in_port, pkt, remote_switches) ==
    LET back == add_flow(dpid, LOCAL_TABLE, LOW_PRIORITY, [eth_dst |-> pkt.src],
                         ApplyOutputs(<<in_port>>), LONG_IDLE_TIME)
        rest == IF pkt.dst \in DOMAIN table
                THEN IF table[pkt.dst].dpid \in Range(remote_switches)
                     THEN ForwardRemote(dpid, pkt, table[pkt.dst])
                     ELSE [sent |-> <<>>, raised |-> FALSE, notified |-> <<>>]
                ELSE FloodRemote(pkt, remote_switches)
    IN [sent |-> <<back>> \o rest.sent, raised |-> rest.raised,
        notified |-> <<increment_flow_mod(dpid, "add")>> \o rest.notified]

\* (mutant) every payload that is not IPv4 is flooded, not ARP alone
packet_in_handler_flood_any(table, dpid, in_port, pkt, remote_switches) ==
    IF IPV4 \in pkt.headers /\ ARP \notin pkt.headers
    THEN HandleIpv4(table, dpid, in_port, pkt, remote_switches)
    ELSE FloodRemote(pkt, remote_switches)

\* what the handler sends, after update_mac_table has made `table`
packet_in_handler(table, dpid, in_port, pkt, remote_switches) ==
    IF ETHERNET \notin pkt.headers
    THEN [sent |-> <<>>, raised |-> TRUE,      \* header_list[ETHERNET]: KeyError
          notified |-> <<>>]
    ELSE IF ARP \in pkt.headers THEN FloodRemote(pkt, remote_switches)
    ELSE IF IPV4 \in pkt.headers
    THEN HandleIpv4(table, dpid, in_port, pkt, remote_switches)
    ELSE [sent |-> <<>>, raised |-> FALSE, notified |-> <<>>]

(***************************************************************************)
(* The events.  A spine's table miss drops (switch_features_handler), so   *)
(* it is the leaves that raise packet-ins: on a miss of both their tables, *)
(* whatever the port the frame came in on, a host's or an uplink.          *)
(***************************************************************************)
Event(type, dpid, in_port, pkt) ==
    [type |-> type, dpid |-> dpid, in_port |-> in_port, pkt |-> pkt]

\* the tasks that run rebuild(): the periodic timer, and the handler of the
\* switch-entered, link-added, link-removed and port-status events
Tasks == {"timer", "event"}

\* no link discovered, nothing derived, no group on any switch
TopoInit ==
    /\ links = {}
    /\ flaps = 0
    /\ switch_neighbors = <<>>
    /\ uplink_ports = <<>>
    /\ host_ports = <<>>
    /\ groups = [dpid \in Switches |-> {}]
    /\ pc = [t \in Tasks |-> "idle"]
    /\ todo = [t \in Tasks |-> {}]

\* no host seen
HostsInit ==
    /\ coarse_location = <<>>
    /\ host_locations = <<>>
    /\ ip_to_mac = <<>>

Init ==
    /\ mac_table = <<>>
    /\ datapaths = {}
    /\ ev = Event("init", 0, 0, NoFrame)
    /\ sent = <<>>
    /\ raised = FALSE
    /\ notified = <<>>
    /\ flow_entries_count = <<>>
    /\ TopoInit
    /\ HostsInit

\* (mutant) the table-miss rules of a leaf are installed on every switch
SwitchFeatures_leaf_rules_everywhere(dpid) ==
    /\ dpid \notin datapaths
    /\ datapaths' = datapaths \cup {dpid}
    /\ ev' = Event("switch_features", dpid, 0, NoFrame)
    /\ sent' = <<del_flow(dpid),
                 add_flow(dpid, LOCAL_TABLE, MIN_PRIORITY, [any |-> TRUE],
                          GotoTable(REMOTE_TABLE), 0),
                 add_flow(dpid, REMOTE_TABLE, MIN_PRIORITY, [any |-> TRUE],
                          ApplyOutputs(<<OFPP_ALL, OFPP_CONTROLLER>>), 0),
                 OFPFlowStatsRequest(dpid)>>
    /\ raised' = FALSE
    /\ notified' = <<increment_flow_mod(dpid, "delete"),
                     increment_flow_mod(dpid, "add"), increment_flow_mod(dpid, "add")>>
    /\ UNCHANGED <<mac_table, flow_entries_count, topo, hosts>>

\* (mutant) the deletion of all rules is sent after the table-miss rules
SwitchFeatures_delete_last(dpid) ==
    /\ dpid \notin datapaths
    /\ datapaths' = datapaths \cup {dpid}
    /\ ev' = Event("switch_features", dpid, 0, NoFrame)
    /\ sent' = (IF dpid \in Leaves
                THEN <<add_flow(dpid, LOCAL_TABLE, MIN_PRIORITY, [any |-> TRUE],
                                GotoTable(REMOTE_TABLE), 0),
                       add_flow(dpid, REMOTE_TABLE, MIN_PRIORITY, [any |-> TRUE],
                                ApplyOutputs(<<OFPP_ALL, OFPP_CONTROLLER>>), 0)>>
                ELSE <<add_flow(dpid, ENTRY_TABLE, MIN_PRIORITY, [any |-> TRUE],
                                <<>>, 0)>>)
               \o <<del_flow(dpid), OFPFlowStatsRequest(dpid)>>
    /\ raised' = FALSE
    /\ notified' = <<increment_flow_mod(dpid, "delete")>>
                   \o (IF dpid \in Leaves
                       THEN <<increment_flow_mod(dpid, "add"),
                              increment_flow_mod(dpid, "add")>>
                       ELSE <<increment_flow_mod(dpid, "add")>>)
    /\ UNCHANGED <<mac_table, flow_entries_count, topo, hosts>>

\* switch_features_handler: a switch connects
SwitchFeatures(dpid) ==
    /\ dpid \notin datapaths
    /\ datapaths' = datapaths \cup {dpid}
    /\ ev' = Event("switch_features", dpid, 0, NoFrame)
    /\ sent' = <<del_flow(dpid)>>
               \o (IF dpid \in Leaves
                   THEN <<add_flow(dpid, LOCAL_TABLE, MIN_PRIORITY, [any |-> TRUE],
                                   GotoTable(REMOTE_TABLE), 0),
                          add_flow(dpid, REMOTE_TABLE, MIN_PRIORITY, [any |-> TRUE],
                                   ApplyOutputs(<<OFPP_ALL, OFPP_CONTROLLER>>), 0)>>
                   ELSE <<add_flow(dpid, ENTRY_TABLE, MIN_PRIORITY, [any |-> TRUE],
                                   <<>>, 0)>>)
               \o <<OFPFlowStatsRequest(dpid)>>
    /\ raised' = FALSE
    /\ notified' = <<increment_flow_mod(dpid, "delete")>>
                   \o (IF dpid \in Leaves
                       THEN <<increment_flow_mod(dpid, "add"),
                              increment_flow_mod(dpid, "add")>>
                       ELSE <<increment_flow_mod(dpid, "add")>>)
    /\ UNCHANGED <<mac_table, flow_entries_count, topo, hosts>>

\* a switch goes away: get_datapath no longer finds it
SwitchLeave(dpid) ==
    /\ dpid \in datapaths
    /\ datapaths' = datapaths \ {dpid}
    /\ ev' = Event("switch_leave", dpid, 0, NoFrame)
    /\ sent' = <<>>
    /\ raised' = FALSE
    /\ notified' = <<>>
    /\ UNCHANGED <<mac_table, flow_entries_count, topo, hosts>>

\* packet_in_handler
PacketIn(dpid, in_port, pkt, remote_switches) ==
    /\ dpid \in datapaths
    /\ mac_table' = IF ETHERNET \in pkt.headers
                    THEN update_mac_table(mac_table, pkt.src, in_port, dpid)
                    ELSE mac_table
    /\ ev' = Event("packet_in", dpid, in_port, pkt)
    /\ LET done == packet_in_handler(mac_table', dpid, in_port, pkt, remote_switches)
       IN  sent' = done.sent /\ raised' = done.raised /\ notified' = done.notified
    /\ UNCHANGED <<datapaths, flow_entries_count, topo, hosts>>

\* (mutant) the loop runs over the leaves only
monitor_flow_stats_leaves_only ==
    /\ ev' = Event("monitor_flow_stats", 0, 0, NoFrame)
    /\ sent' = LET connected == SelectSeq(net_leaves,
                                          LAMBDA dpid : ~IsNone(get_datapath(dpid)))
               IN  [i \in DOMAIN connected |-> OFPFlowStatsRequest(connected[i])]
    /\ raised' = FALSE
    /\ notified' = <<>>
    /\ UNCHANGED <<mac_table, flow_entries_count, datapaths, topo, hosts>>

\* one round of _monitor_flow_stats, after its sleep: a request for the flow
\* statistics of every switch of net.spines + net.leaves that get_datapath
\* finds.  The loop is `while True` and has no way out.
monitor_flow_stats ==
    /\ ev' = Event("monitor_flow_stats", 0, 0, NoFrame)
    /\ sent' = LET connected == SelectSeq(net_spines \o net_leaves,
                                          LAMBDA dpid : ~IsNone(get_datapath(dpid)))
               IN  [i \in DOMAIN connected |-> OFPFlowStatsRequest(connected[i])]
    /\ raised' = FALSE
    /\ notified' = <<>>
    /\ UNCHANGED <<mac_table, flow_entries_count, datapaths, topo, hosts>>

Next ==
    \/ \E dpid \in Switches : SwitchFeatures(dpid)
    \/ \E dpid \in Switches : SwitchLeave(dpid)
    \/ \E dpid \in Leaves, in_port \in LeafPorts, pkt \in Frames \cup RuntFrames :
          \E remote_switches \in Orders(Leaves \ {dpid}) :
              PacketIn(dpid, in_port, pkt, remote_switches)
    \/ monitor_flow_stats

Spec == Init /\ [][Next]_vars

\* the thread of _monitor_flow_stats, spawned in __init__, is never cancelled
\* and wakes up after every flow_stats_interval
SpecFair == Spec /\ WF_vars(monitor_flow_stats)

(***************************************************************************)
(* Part II.  The exporter reads controller.datapaths, .switch_neighbors,   *)
(* .uplink_ports and .host_ports (metrics_exporter.py, lines 367-374,      *)
(* 398-432, 440); the controller that derives them is not among the        *)
(* sources.  rebuild() and the group manager are therefore written from    *)
(* their contract: spec.md, sections 3 (port classification, ECMP group),  *)
(* 4.2 (Topology Model), 4.4 (ECMP Group Manager) and 5 (scheduling: tasks *)
(* run without preemption up to a suspension point, and a command sent to  *)
(* a switch is one).                                                       *)
(***************************************************************************)
\* the reserved local port, 0xfffffffe read as a signed 32-bit word
OFPP_LOCAL == -2

\* the fixed identifier of the multipath group
ECMP_GROUP_ID == 1

\* the links the fabric is wired with
FabricLinks == Leaves \X Spines

\* the port list of a switch
Ports(dpid) ==
    (IF dpid \in Leaves THEN LeafPorts ELSE {net_links(dpid, l) : l \in Leaves})
    \cup {OFPP_LOCAL}

\* dict.get(key, set())
Get(map, key) == IF key \in DOMAIN map THEN map[key] ELSE {}

Min(S) == CHOOSE x \in S : \A y \in S : x <= y

\* sorted(S)
RECURSIVE Sorted(_)
Sorted(S) == IF S = {} THEN <<>> ELSE <<Min(S)>> \o Sorted(S \ {Min(S)})

\* the switches at the other end of the links of a switch
Peers(link_list, dpid) ==
    {n \in Switches : <<dpid, n>> \in link_list \/ <<n, dpid>> \in link_list}

\* neighbor map: switch -> {neighbor switch -> local port}
compute_neighbors(switch_list, link_list) ==
    [dpid \in switch_list |->
        [n \in Peers(link_list, dpid) |-> net_links(dpid, n)]]

\* the ports that appear in any link
compute_uplinks(neighbors) ==
    [dpid \in DOMAIN neighbors |->
        {neighbors[dpid][n] : n \in DOMAIN neighbors[dpid]}]

compute_host_ports_with_local(switch_list, uplinks) ==
    [dpid \in switch_list |-> Ports(dpid) \ Get(uplinks, dpid)]

\* all ports of the switch minus uplinks minus the reserved local port
compute_host_ports(switch_list, uplinks) ==
    [dpid \in switch_list |-> (Ports(dpid) \ Get(uplinks, dpid)) \ {OFPP_LOCAL}]

\* (mutant) the label follows the host-port set of the last rebuild
get_switch_type_by_ports(dpid) ==
    IF Get(host_ports, dpid) = {} THEN "spine" ELSE "leaf"

\* PrometheusMetricsExporter.get_switch_type: the label of a switch
get_switch_type(dpid) == IF dpid <= 2 THEN "spine" ELSE "leaf"

\* PrometheusMetricsExporter.get_port_type
get_port_type(dpid, port_no) ==
    IF port_no \in Get(uplink_ports, dpid) THEN "uplink"
    ELSE IF port_no \in Get(host_ports, dpid) THEN "host"
    ELSE "unknown"

\* group-mod messages
group_mod(datapath, command, group_id, buckets) ==
    [type |-> "group_mod", datapath |-> datapath, command |-> command,
     group_type |-> "select", group_id |-> group_id, buckets |-> buckets]

OFPPortStatsRequest(datapath) ==
    [type |-> "port_stats_request", datapath |-> datapath]

OFPGroupStatsRequest(datapath) ==
    [type |-> "group_stats_request", datapath |-> datapath]

\* what a switch does with a group-mod: a delete of a group it does not have is
\* ignored, an add of a group it has is refused
ApplyGroupMod(table, msg) ==
    IF msg.command = "delete"
    THEN {g \in table : g.group_id # msg.group_id}
    ELSE IF \E g \in table : g.group_id = msg.group_id
    THEN table
    ELSE table \cup {[group_id |-> msg.group_id, group_type |-> msg.group_type,
                      buckets |-> msg.buckets]}

RECURSIVE ApplyGroupMods(_, _)
ApplyGroupMods(table, msgs) ==
    IF msgs = <<>> THEN table
    ELSE ApplyGroupMods(ApplyGroupMod(table, Head(msgs)), Tail(msgs))

install_add_only(uplinks, table, dpid) ==
    IF Get(uplinks, dpid) = {} THEN <<>>
    ELSE <<group_mod(dpid, "add", ECMP_GROUP_ID, Sorted(Get(uplinks, dpid)))>>

\* (mutant) the group is added before the old one is deleted
install_add_first(uplinks, table, dpid) ==
    IF Get(uplinks, dpid) = {} THEN <<>>
    ELSE <<group_mod(dpid, "add", ECMP_GROUP_ID, Sorted(Get(uplinks, dpid))),
           group_mod(dpid, "delete", ECMP_GROUP_ID, <<>>)>>

install_toggle(uplinks, table, dpid) ==
    IF Get(uplinks, dpid) = {} THEN <<>>
    ELSE IF table # {}
    THEN <<group_mod(dpid, "delete", ECMP_GROUP_ID, <<>>)>>
    ELSE <<group_mod(dpid, "add", ECMP_GROUP_ID, Sorted(Get(uplinks, dpid)))>>

\* ECMP Group Manager, install(switch_id): no-op if the switch has no uplinks;
\* otherwise delete the group, then add it with one bucket per uplink port,
\* sorted by port number.  `table` is the group table of the switch, which the
\* controller does not look at.
install(uplinks, table, dpid) ==
    IF Get(uplinks, dpid) = {} THEN <<>>
    ELSE <<group_mod(dpid, "delete", ECMP_GROUP_ID, <<>>),
           group_mod(dpid, "add", ECMP_GROUP_ID, Sorted(Get(uplinks, dpid)))>>

\* every switch of the fabric has connected; nothing else has happened
InitTopo ==
    /\ mac_table = <<>>
    /\ datapaths = Switches
    /\ ev = Event("init", 0, 0, NoFrame)
    /\ sent = <<>>
    /\ raised = FALSE
    /\ notified = <<>>
    /\ flow_entries_count = <<>>
    /\ TopoInit
    /\ HostsInit

\* the discovery finds a link
LinkAdd(l, s) ==
    /\ flaps < MaxFlaps
    /\ <<l, s>> \notin links
    /\ links' = links \cup {<<l, s>>}
    /\ flaps' = flaps + 1
    /\ UNCHANGED <<mac_table, flow_entries_count, datapaths, ev, sent, raised, notified, hosts>>
    /\ UNCHANGED <<switch_neighbors, uplink_ports, host_ports, groups, pc, todo>>

\* the discovery loses a link
LinkDelete(l, s) ==
    /\ flaps < MaxFlaps
    /\ <<l, s>> \in links
    /\ links' = links \ {<<l, s>>}
    /\ flaps' = flaps + 1
    /\ UNCHANGED <<mac_table, flow_entries_count, datapaths, ev, sent, raised, notified, hosts>>
    /\ UNCHANGED <<switch_neighbors, uplink_ports, host_ports, groups, pc, todo>>

rebuild_in_place(t) ==
    /\ pc[t] = "idle"
    /\ switch_neighbors' = compute_neighbors(datapaths, links)
    /\ uplink_ports' = compute_uplinks(switch_neighbors')
    /\ host_ports' = [dpid \in datapaths |->
                         Get(host_ports, dpid)
                         \cup compute_host_ports(datapaths, uplink_ports')[dpid]]
    /\ todo' = [todo EXCEPT ![t] = {dpid \in datapaths : host_ports'[dpid] # {}}]
    /\ pc' = [pc EXCEPT ![t] = IF todo'[t] = {} THEN "idle" ELSE "install"]
    /\ ev' = Event("rebuild", 0, 0, NoFrame)
    /\ sent' = <<>>
    /\ UNCHANGED <<mac_table, flow_entries_count, datapaths, raised, notified, links, flaps, groups, hosts>>

\* rebuild(), up to its first command to a switch: pull the switch set and the
\* link set, replace the three maps at once, and go on to the group manager
\* for every switch that now has a non-empty host-port set
rebuild(t) ==
    /\ pc[t] = "idle"
    /\ switch_neighbors' = compute_neighbors(datapaths, links)
    /\ uplink_ports' = compute_uplinks(switch_neighbors')
    /\ host_ports' = compute_host_ports(datapaths, uplink_ports')
    /\ todo' = [todo EXCEPT ![t] = {dpid \in datapaths : host_ports'[dpid] # {}}]
    /\ pc' = [pc EXCEPT ![t] = IF todo'[t] = {} THEN "idle" ELSE "install"]
    /\ ev' = Event("rebuild", 0, 0, NoFrame)
    /\ sent' = <<>>
    /\ UNCHANGED <<mac_table, flow_entries_count, datapaths, raised, notified, links, flaps, groups, hosts>>

\* rebuild(), from one command to the next: the group manager on the next
\* switch, which reads the uplinks the switch has at that moment
install_step(t) ==
    /\ pc[t] = "install"
    /\ LET dpid == Min(todo[t])
           msgs == install(uplink_ports, groups[dpid], dpid)
       IN  /\ sent' = msgs
           /\ groups' = [groups EXCEPT ![dpid] = ApplyGroupMods(@, msgs)]
           /\ todo' = [todo EXCEPT ![t] = @ \ {dpid}]
           /\ pc' = [pc EXCEPT ![t] = IF todo'[t] = {} THEN "idle" ELSE "install"]
           /\ ev' = Event("ecmp_install", dpid, 0, NoFrame)
    /\ UNCHANGED <<mac_table, flow_entries_count, datapaths, raised, notified, hosts>>
    /\ UNCHANGED <<links, flaps, switch_neighbors, uplink_ports, host_ports>>

\* (mutant) the port counts create the entries they do not find
\* (dict.setdefault for dict.get)
stats_collector_setdefault ==
    /\ ev' = Event("stats_collector", 0, 0, NoFrame)
    /\ sent' = [i \in 1..Cardinality(datapaths) |->
                   OFPPortStatsRequest(Sorted(datapaths)[i])]
               \o [i \in 1..Cardinality(datapaths) |->
                   OFPFlowStatsRequest(Sorted(datapaths)[i])]
               \o LET with_hosts == Sorted({dpid \in datapaths :
                                              Get(host_ports, dpid) # {}})
                  IN  [i \in DOMAIN with_hosts |->
                          OFPGroupStatsRequest(with_hosts[i])]
    /\ uplink_ports' = [dpid \in datapaths |-> Get(uplink_ports, dpid)]
    /\ host_ports' = [dpid \in datapaths |-> Get(host_ports, dpid)]
    /\ UNCHANGED <<mac_table, flow_entries_count, datapaths, raised, notified, hosts>>
    /\ UNCHANGED <<links, flaps, switch_neighbors, groups, pc, todo>>

\* one round of PrometheusMetricsExporter._stats_collector: the requests it
\* sends; the gauges it sets from the maps are written and never read back
stats_collector ==
    /\ ev' = Event("stats_collector", 0, 0, NoFrame)
    /\ sent' = [i \in 1..Cardinality(datapaths) |->
                   OFPPortStatsRequest(Sorted(datapaths)[i])]
               \o [i \in 1..Cardinality(datapaths) |->
                   OFPFlowStatsRequest(Sorted(datapaths)[i])]
               \o LET with_hosts == Sorted({dpid \in datapaths :
                                              Get(host_ports, dpid) # {}})
                  IN  [i \in DOMAIN with_hosts |->
                          OFPGroupStatsRequest(with_hosts[i])]
    /\ UNCHANGED <<mac_table, flow_entries_count, datapaths, raised, notified, topo, hosts>>

\* handle_port_stats_reply, handle_flow_stats_reply, handle_group_stats_reply:
\* the reply of a switch sets gauges and counters of the exporter, no more
handle_stats_reply(dpid) ==
    /\ dpid \in datapaths
    /\ ev' = Event("stats_reply", dpid, 0, NoFrame)
    /\ sent' = <<>>
    /\ UNCHANGED <<mac_table, flow_entries_count, datapaths, raised, notified, topo, hosts>>

\* rebuild() from its first step to its last, nothing else running in between
RECURSIVE install_all(_, _, _)
install_all(tables, uplinks, dpids) ==
    IF dpids = {} THEN tables
    ELSE LET dpid == Min(dpids)
         IN  install_all([tables EXCEPT ![dpid] =
                              ApplyGroupMods(@, install(uplinks, @, dpid))],
                         uplinks, dpids \ {dpid})

rebuild_run(switch_list, link_list, tables) ==
    LET nb == compute_neighbors(switch_list, link_list)
        up == compute_uplinks(nb)
        hp == compute_host_ports(switch_list, up)
    IN  [switch_neighbors |-> nb, uplink_ports |-> up, host_ports |-> hp,
         groups |-> install_all(tables, up, {dpid \in switch_list : hp[dpid] # {}})]

Timer_without_rebuild == install_step("timer")

\* the periodic reconciliation task
Timer == rebuild("timer") \/ install_step("timer")

\* the handler of a topology event, when such an event is delivered
TopologyEvent == rebuild("event") \/ install_step("event")

NextTopo ==
    \/ \E l \in Leaves, s \in Spines : LinkAdd(l, s)
    \/ \E l \in Leaves, s \in Spines : LinkDelete(l, s)
    \/ Timer
    \/ TopologyEvent
    \/ stats_collector
    \/ \E dpid \in Switches : handle_stats_reply(dpid)

SpecTopo == InitTopo /\ [][NextTopo]_vars

\* the periodic task is never cancelled and sleeps a fixed interval
SpecTopoFair == SpecTopo /\ WF_vars(Timer)

(***************************************************************************)
(* Part III.  The exporter also reads controller.host_locations and        *)
(* controller.ip_to_mac (metrics_exporter.py, lines 462-475).  The         *)
(* packet-in handler that fills them and forwards by the maps of Part II   *)
(* is not among the sources either; it is written from its contract:       *)
(* spec.md, sections 3 (host location, IP->MAC table), 4.3 (Host Location  *)
(* Store) and 4.5 (Forwarding Engine, steps 1 to 8 and forward_unicast).   *)
(* Its specification is SpecFwd: packet-ins on a fabric whose maps a       *)
(* rebuild has derived.                                                    *)
(***************************************************************************)
LLDP == "lldp"

\* the address topology-discovery frames are sent to
LLDP_MAC == "01:80:c2:00:00:0e"

\* a topology-discovery frame, as a host could forge one
LldpFrames ==
    [headers : {{ETHERNET, LLDP}}, src : MACs, dst : {LLDP_MAC}, opcode : {"-"},
     src_ip : {NoIp}, dst_ip : {NoIp}, src_port : {0}, dst_port : {0}]

\* a host announces, in a gratuitous ARP request, an address that was the
\* other host's
TakeoverFrames ==
    {f \in [headers : {{ETHERNET, ARP}}, src : MACs, dst : {BROADCAST},
            opcode : {"request"},
            src_ip : {IpOf(m) : m \in MACs}, dst_ip : {IpOf(m) : m \in MACs},
            src_port : {0}, dst_port : {0}] :
        /\ f.src_ip # IpOf(f.src)
        /\ f.dst_ip = f.src_ip}

\* the frames of Part III: an ARP request to everybody or an ARP reply to one
\* host, a ping (the rules match on MAC addresses only, so it stands for every
\* payload but ARP), a runt and a discovery frame
FwdFrames ==
    {f \in ArpFrames : (f.opcode = "request") <=> (f.dst = BROADCAST)}
    \cup {f \in Ipv4Frames : ICMP \in f.headers}
    \cup RuntFrames \cup LldpFrames

\* the frames the IP-to-MAC table is followed on: the ARP packets, the
\* announcements, and a ping from one host to the other
ArpLearnFrames ==
    {f \in ArpFrames : (f.opcode = "request") <=> (f.dst = BROADCAST)}
    \cup TakeoverFrames
    \cup {f \in Ipv4Frames : ICMP \in f.headers /\ f.dst # BROADCAST}

\* the link lists the maps of Part III are derived from: the whole fabric, and
\* the fabric without the link of the last leaf to the first spine
FwdLinkLists ==
    {FabricLinks, FabricLinks \ {<<net_leaves[NumLeaves], net_spines[1]>>}}

OFPPacketOut(datapath, in_port, actions, data) ==
    [type |-> "packet_out", datapath |-> datapath, in_port |-> in_port,
     actions |-> actions, data |-> data]

\* actions: output on a port, or hand to the multipath group
OutputTo(port) == [output |-> port, group |-> 0]

GroupAction == [output |-> 0, group |-> ECMP_GROUP_ID]

OutputToAll(ports) == [i \in 1..Cardinality(ports) |-> OutputTo(Sorted(ports)[i])]

ApplyActions(actions) == <<[apply_actions |-> actions]>>

\* coarse location: MAC -> switch, from every frame
learn_coarse(coarse, mac, switch_id) ==
    [m \in DOMAIN coarse \cup {mac} |-> IF m = mac THEN switch_id ELSE coarse[m]]

\* fine location: MAC -> (switch, port), from a frame on a host-facing port only
learn_fine(fine, mac, switch_id, in_port) ==
    IF in_port \in Get(host_ports, switch_id)
    THEN [m \in DOMAIN fine \cup {mac} |->
             IF m = mac THEN [dpid |-> switch_id, port |-> in_port] ELSE fine[m]]
    ELSE fine

\* (mutant) the first MAC learned for an address is kept
learn_arp_once(table, ip, mac) ==
    [i \in DOMAIN table \cup {ip} |-> IF i \in DOMAIN table THEN table[i] ELSE mac]

\* learn_arp(ip, mac)
learn_arp(table, ip, mac) ==
    [i \in DOMAIN table \cup {ip} |-> IF i = ip THEN mac ELSE table[i]]

\* the reply the proxy makes up for a request
ArpReply(request, mac) ==
    [headers |-> {ETHERNET, ARP}, src |-> mac, dst |-> request.src,
     opcode |-> "reply", src_ip |-> request.dst_ip, dst_ip |-> request.src_ip,
     src_port |-> 0, dst_port |-> 0]

\* every host port except the ingress port, and the group as well when the
\* frame came in on a host port
host_flood_actions(dpid, in_port, with_group) ==
    OutputToAll(Get(host_ports, dpid) \ {in_port})
    \o (IF with_group /\ in_port \in Get(host_ports, dpid)
        THEN <<GroupAction>> ELSE <<>>)

\* the ports towards the neighbors of a switch
neighbor_ports(dpid) ==
    IF dpid \in DOMAIN switch_neighbors
    THEN {switch_neighbors[dpid][n] : n \in DOMAIN switch_neighbors[dpid]}
    ELSE {}

\* step 7, an ARP packet the proxy does not answer
arp_flood_actions(dpid, in_port) ==
    IF Get(host_ports, dpid) # {}
    THEN host_flood_actions(dpid, in_port, TRUE)
    ELSE OutputToAll(neighbor_ports(dpid) \ {in_port})

transit_port_direct_only(dpid, dst_dpid) ==
    IF dpid \in DOMAIN switch_neighbors /\ dst_dpid \in DOMAIN switch_neighbors[dpid]
    THEN switch_neighbors[dpid][dst_dpid]
    ELSE 0

\* the one-hop output port towards the destination's switch: the port of the
\* direct adjacency, else the first sorted uplink; 0 (None) with no uplink
transit_port(dpid, dst_dpid) ==
    IF dpid \in DOMAIN switch_neighbors /\ dst_dpid \in DOMAIN switch_neighbors[dpid]
    THEN switch_neighbors[dpid][dst_dpid]
    ELSE IF Get(uplink_ports, dpid) # {}
    THEN Sorted(Get(uplink_ports, dpid))[1]
    ELSE 0

\* a rule on the exact destination MAC with the given actions, and the frame
\* sent out by the same actions
rule_and_packet_out(dpid, in_port, pkt, actions) ==
    <<add_flow(dpid, ENTRY_TABLE, MID_PRIORITY, [eth_dst |-> pkt.dst],
               ApplyActions(actions), 0),
      OFPPacketOut(dpid, in_port, actions, pkt)>>

IsMulticast(mac) == mac \in {BROADCAST, LLDP_MAC}

\* forward_unicast(switch_id, in_port, src_mac, dst_mac, frame)
forward_unicast(fine, dpid, in_port, pkt) ==
    IF IsMulticast(pkt.dst)
    THEN <<OFPPacketOut(dpid, in_port, host_flood_actions(dpid, in_port, FALSE), pkt)>>
    ELSE IF pkt.dst \notin DOMAIN fine
    THEN <<OFPPacketOut(dpid, in_port, host_flood_actions(dpid, in_port, TRUE), pkt)>>
    ELSE IF fine[pkt.dst].dpid = dpid
    THEN rule_and_packet_out(dpid, in_port, pkt, <<OutputTo(fine[pkt.dst].port)>>)
    ELSE IF in_port \in Get(host_ports, dpid)
    THEN rule_and_packet_out(dpid, in_port, pkt, <<GroupAction>>)
    ELSE IF transit_port(dpid, fine[pkt.dst].dpid) # 0
    THEN rule_and_packet_out(dpid, in_port, pkt,
                             <<OutputTo(transit_port(dpid, fine[pkt.dst].dpid))>>)
    ELSE <<>>

\* step 8, the flood that follows forward_unicast
fallback_flood(dpid, in_port, pkt) ==
    OFPPacketOut(dpid, in_port, <<OutputTo(OFPP_ALL), OutputTo(OFPP_CONTROLLER)>>, pkt)

\* step 7
handle_arp(coarse, fine, arp_table, dpid, in_port, pkt) ==
    LET learnt == learn_arp(arp_table, pkt.src_ip, pkt.src)
        located == learn_fine(fine, pkt.src, dpid, in_port)
    IN  [coarse |-> coarse, fine |-> located, ip_to_mac |-> learnt,
         sent |-> IF pkt.opcode = "request" /\ pkt.dst_ip \in DOMAIN learnt
                  THEN <<OFPPacketOut(dpid, OFPP_CONTROLLER, <<OutputTo(in_port)>>,
                                      ArpReply(pkt, learnt[pkt.dst_ip]))>>
                  ELSE <<OFPPacketOut(dpid, in_port,
                                      arp_flood_actions(dpid, in_port), pkt)>>]

\* the packet-in handler, steps 1 to 8: the tables it leaves and what it sends
on_packet_in(coarse, fine, arp_table, dpid, in_port, pkt) ==
    IF ETHERNET \notin pkt.headers
    THEN [coarse |-> coarse, fine |-> fine, ip_to_mac |-> arp_table, sent |-> <<>>]
    ELSE LET seen == learn_coarse(coarse, pkt.src, dpid)
             located == learn_fine(fine, pkt.src, dpid, in_port)
             quiet == [coarse |-> seen, fine |-> located, ip_to_mac |-> arp_table,
                       sent |-> <<>>]
         IN  IF pkt.dst \in DOMAIN seen /\ seen[pkt.dst] # seen[pkt.src]
             THEN quiet
             ELSE IF LLDP \in pkt.headers
             THEN quiet
             ELSE IF ARP \in pkt.headers
             THEN handle_arp(seen, located, arp_table, dpid, in_port, pkt)
             ELSE [quiet EXCEPT !.sent =
                      forward_unicast(located, dpid, in_port, pkt)
                      \o <<fallback_flood(dpid, in_port, pkt)>>]

\* every switch has connected and a rebuild has run on one of the link lists
InitFwd ==
    /\ mac_table = <<>>
    /\ datapaths = Switches
    /\ ev = Event("init", 0, 0, NoFrame)
    /\ sent = <<>>
    /\ raised = FALSE
    /\ notified = <<>>
    /\ flow_entries_count = <<>>
    /\ links \in FwdLinkLists
    /\ flaps = 0
    /\ LET done == rebuild_run(Switches, links, [dpid \in Switches |-> {}])
       IN  /\ switch_neighbors = done.switch_neighbors
           /\ uplink_ports = done.uplink_ports
           /\ host_ports = done.host_ports
           /\ groups = done.groups
    /\ pc = [t \in Tasks |-> "idle"]
    /\ todo = [t \in Tasks |-> {}]
    /\ HostsInit

\* a packet-in
PacketInFwd(dpid, in_port, pkt) ==
    /\ LET done == on_packet_in(coarse_location, host_locations, ip_to_mac,
                                dpid, in_port, pkt)
       IN  /\ coarse_location' = done.coarse
           /\ host_locations' = done.fine
           /\ ip_to_mac' = done.ip_to_mac
           /\ sent' = done.sent
    /\ ev' = Event("packet_in", dpid, in_port, pkt)
    /\ UNCHANGED <<mac_table, flow_entries_count, datapaths, raised, notified, topo>>

NextFwd ==
    \E dpid \in Switches, pkt \in FwdFrames :
        \E in_port \in Ports(dpid) \ {OFPP_LOCAL} : PacketInFwd(dpid, in_port, pkt)

SpecFwd == InitFwd /\ [][NextFwd]_vars

\* the same handler, on the frames of ArpLearnFrames and the whole fabric
InitArp == InitFwd /\ links = FabricLinks

NextArp ==
    \E dpid \in Switches, pkt \in ArpLearnFrames :
        \E in_port \in Ports(dpid) \ {OFPP_LOCAL} : PacketInFwd(dpid, in_port, pkt)

SpecArp == InitArp /\ [][NextArp]_vars

(***************************************************************************)
(* Properties of the packet-in handler.                                    *)
(***************************************************************************)
\* the last handler ran on a packet-in
IsPacketIn == ev.type = "packet_in"

\* ... of a frame to one host whose entry of mac_table names another leaf
\* than the one the frame came in on
ToRemoteHost ==
    /\ IsPacketIn
    /\ ev.pkt.dst \in DOMAIN mac_table
    /\ mac_table[ev.pkt.dst].dpid # ev.dpid

IsRule(msg) == msg.type = "flow_mod" /\ msg.command = "add"

IsPacketOut(msg) == msg.type = "packet_out"

Sent == {sent[i] : i \in DOMAIN sent}

\* the output ports of a rule or of a packet-out
Outputs(msg) ==
    IF IsPacketOut(msg) THEN {msg.actions[i].output : i \in DOMAIN msg.actions}
    ELSE UNION {{ins.apply_actions[i].output : i \in DOMAIN ins.apply_actions} :
                  ins \in {x \in Range(msg.instructions) : "apply_actions" \in DOMAIN x}}

\* the spine the addresses and ports of a frame hash to
HashedSpine(pkt) ==
    1 + ((pkt.src_ip[1] + pkt.src_ip[2] + pkt.src_ip[3] + pkt.src_ip[4]
          + pkt.dst_ip[1] + pkt.dst_ip[2] + pkt.dst_ip[3] + pkt.dst_ip[4]
          + (IF ICMP \in pkt.headers THEN 0 ELSE pkt.src_port + pkt.dst_port))
         % NumSpines)

\* the fields a rule of the flow of a frame matches on
FlowFields(pkt) ==
    IF TCP \in pkt.headers
    THEN {"eth_type", "ipv4_src", "ipv4_dst", "ip_proto", "tcp_src", "tcp_dst"}
    ELSE IF UDP \in pkt.headers
    THEN {"eth_type", "ipv4_src", "ipv4_dst", "ip_proto", "udp_src", "udp_dst"}
    ELSE {"eth_type", "ipv4_src", "ipv4_dst"}

\* C1 (as claimed): a packet-in whose ingress port is an uplink of the leaf
\* neither creates nor changes the recorded location of any MAC, the
\* frame's source included.
C1_UplinkNeverSetsLocation ==
    [][(ev'.type = "packet_in" /\ ev'.in_port \in LeafUplinkPorts)
          => mac_table' = mac_table]_vars

Rebuilt == DOMAIN host_ports # {}

\* no rebuild is under way
AllIdle == \A t \in Tasks : pc[t] = "idle"

BucketPorts(g) == {g.buckets[i] : i \in DOMAIN g.buckets}

\* a switch with host-facing ports and at least one uplink
LeafWithUplinks(dpid) ==
    Get(host_ports, dpid) # {} /\ Get(uplink_ports, dpid) # {}

\* the switch has one multipath group, with one bucket for each port of `ports`
HasGroupOf(dpid, ports) ==
    /\ Cardinality(groups[dpid]) = 1
    /\ \A g \in groups[dpid] :
          /\ g.group_type = "select"
          /\ BucketPorts(g) = ports
          /\ Len(g.buckets) = Cardinality(ports)

GroupsMatch ==
    \A dpid \in datapaths :
        LeafWithUplinks(dpid) => HasGroupOf(dpid, uplink_ports[dpid])

\* a task ends its rebuild
RebuildReturns == \E t \in Tasks : pc[t] = "install" /\ pc'[t] = "idle"

RebuiltOnCurrentLinks ==
    /\ AllIdle
    /\ ev.type = "ecmp_install"
    /\ switch_neighbors = compute_neighbors(datapaths, links)

Snapshot(link_list) ==
    LET nb == compute_neighbors(datapaths, link_list)
        up == compute_uplinks(nb)
    IN  <<nb, up, compute_host_ports(datapaths, up)>>

Converged ==
    /\ <<switch_neighbors, uplink_ports, host_ports>> = Snapshot(links)
    /\ \A dpid \in datapaths :
          (host_ports[dpid] # {} /\ Peers(links, dpid) # {})
              => HasGroupOf(dpid, {net_links(dpid, n) : n \in Peers(links, dpid)})

PacketOutOn(dpid) == \E msg \in Sent : IsPacketOut(msg) /\ msg.datapath = dpid

\* C11 (as claimed): a packet-in handler always finishes normally; a switch
\* that is not connected costs the operation on that switch only, so a
\* unicast IPv4 frame to a host recorded on another, connected leaf is still
\* sent out on that leaf when it is the selected spine that is not connected.
C11_NoFailureIsFatal ==
    IsPacketIn =>
        /\ ~raised
        /\ (/\ ToRemoteHost
            /\ IPV4 \in ev.pkt.headers /\ ARP \notin ev.pkt.headers
            /\ mac_table[ev.pkt.dst].dpid \in datapaths)
              => PacketOutOn(mac_table[ev.pkt.dst].dpid)

(***************************************************************************)
(* Properties of the forwarding engine of Part III.                        *)
(***************************************************************************)
\* the last packet-in got past the early exit of step 3
PastEarlyExit ==
    /\ IsPacketIn
    /\ ETHERNET \in ev.pkt.headers
    /\ ~(/\ ev.pkt.dst \in DOMAIN coarse_location
         /\ coarse_location[ev.pkt.dst] # coarse_location[ev.pkt.src])

\* ... and reached step 8
ReachedStep8 ==
    /\ PastEarlyExit
    /\ LLDP \notin ev.pkt.headers
    /\ ARP \notin ev.pkt.headers

\* ... on a transit switch: the destination is located on another switch and
\* the frame came in on a port that is not host-facing
OnTransitSwitch ==
    /\ ReachedStep8
    /\ ev.pkt.dst \in DOMAIN host_locations
    /\ host_locations[ev.pkt.dst].dpid # ev.dpid
    /\ ev.in_port \notin Get(host_ports, ev.dpid)

\* ... whose neighbor map has no adjacency to the destination's switch
NoAdjacency ==
    /\ OnTransitSwitch
    /\ host_locations[ev.pkt.dst].dpid \notin DOMAIN switch_neighbors[ev.dpid]

IsUndecodable == IsPacketIn /\ ETHERNET \notin ev.pkt.headers

\* C13 (as claimed): a packet-in without a decodable Ethernet header is
\* dropped silently: the handler ends normally and sends no command.
C13_UndecodableDroppedSilently ==
    IsUndecodable => ~raised /\ sent = <<>>

(***************************************************************************)
(* Properties of switch_features_handler.                                  *)
(***************************************************************************)
\* the last event is the connection of a switch
IsConnect == ev.type = "switch_features"

\* the rules the last handler installed, in the order sent
RulesSent == SelectSeq(sent, IsRule)

\* a rule that matches every frame, at the lowest priority
IsCatchAll(msg) ==
    IsRule(msg) /\ msg.match = [any |-> TRUE] /\ msg.priority = MIN_PRIORITY

\* C14 (as claimed): when a switch, spine or leaf, connects, it is recorded
\* and exactly two rules are installed on it: a lowest-priority catch-all
\* that sends to the controller, and a rule that sends ARP to the controller.
C14_TwoBaselineRules ==
    IsConnect =>
        /\ ev.dpid \in datapaths
        /\ Len(RulesSent) = 2
        /\ \E i \in DOMAIN RulesSent :
              IsCatchAll(RulesSent[i]) /\ OFPP_CONTROLLER \in Outputs(RulesSent[i])
        /\ \E i \in DOMAIN RulesSent :
              /\ ~IsCatchAll(RulesSent[i])
              /\ OFPP_CONTROLLER \in Outputs(RulesSent[i])

\* C14 (as the handler does it): the switch is recorded; all its rules are
\* deleted first and the flow statistics requested last; in between, a leaf
\* gets two lowest-priority catch-alls, LOCAL_TABLE to REMOTE_TABLE and
\* REMOTE_TABLE to every port and the controller, so that a frame no other
\* rule matches reaches the controller; a spine gets one lowest-priority
\* catch-all in ENTRY_TABLE without instruction, so that such a frame is
\* dropped there.  No rule matches ARP.
C14_TableMissRules ==
    IsConnect =>
        /\ ev.dpid \in datapaths
        /\ ~raised
        /\ sent[1] = del_flow(ev.dpid)
        /\ sent[Len(sent)] = OFPFlowStatsRequest(ev.dpid)
        /\ Len(sent) = Len(RulesSent) + 2
        /\ \A i \in DOMAIN RulesSent :
              IsCatchAll(RulesSent[i]) /\ RulesSent[i].datapath = ev.dpid
        /\ ev.dpid \in Leaves =>
              /\ Len(RulesSent) = 2
              /\ RulesSent[1].table_id = LOCAL_TABLE
              /\ RulesSent[1].instructions = GotoTable(REMOTE_TABLE)
              /\ RulesSent[2].table_id = REMOTE_TABLE
              /\ Outputs(RulesSent[2]) = {OFPP_ALL, OFPP_CONTROLLER}
        /\ ev.dpid \in Spines =>
              /\ Len(RulesSent) = 1
              /\ RulesSent[1].table_id = ENTRY_TABLE
              /\ RulesSent[1].instructions = <<>>

\* a spine connects after a leaf did
C14_Witness ==
    /\ IsConnect
    /\ ev.dpid \in Spines
    /\ datapaths \cap Leaves # {}
    /\ Len(RulesSent) = 1

(***************************************************************************)
(* Properties of update_mac_table.                                         *)
(***************************************************************************)
\* C15: a packet-in with a decodable Ethernet header sets the switch of the
\* source MAC's entry of mac_table to the switch that sent the packet-in,
\* whatever the ingress port, and leaves every other entry as it was; no
\* other step changes mac_table.  So the switch recorded for a MAC is the
\* switch of the most recent packet-in with that source MAC.
C15_CoarseLearning ==
    [][IF ev'.type = "packet_in" /\ ETHERNET \in ev'.pkt.headers
       THEN /\ DOMAIN mac_table' = DOMAIN mac_table \cup {ev'.pkt.src}
            /\ mac_table'[ev'.pkt.src].dpid = ev'.dpid
            /\ \A m \in DOMAIN mac_table \ {ev'.pkt.src} :
                  mac_table'[m] = mac_table[m]
       ELSE mac_table' = mac_table]_vars

\* a MAC is recorded at a leaf where it came in on an uplink, while the other
\* MAC is recorded too
C15_Witness ==
    /\ IsPacketIn
    /\ ETHERNET \in ev.pkt.headers
    /\ ev.in_port \in LeafUplinkPorts
    /\ mac_table[ev.pkt.src].dpid = ev.dpid
    /\ DOMAIN mac_table = MACs
    /\ \E m \in MACs \ {ev.pkt.src} : mac_table[m].dpid = ev.dpid

(***************************************************************************)
(* Properties of the IP-to-MAC table.                                      *)
(***************************************************************************)
\* the last packet-in carried an ARP packet
IsArp == IsPacketIn /\ ARP \in ev.pkt.headers

\* ... and reached step 7
ArpHandled == PastEarlyExit /\ LLDP \notin ev.pkt.headers /\ ARP \in ev.pkt.headers

\* the table with the entry of the sender's address set to the sender's MAC
SenderLearnt(table, pkt) ==
    [ip \in DOMAIN table \cup {pkt.src_ip} |->
        IF ip = pkt.src_ip THEN pkt.src ELSE table[ip]]

IsInstall == ev.type = "ecmp_install"

\* C17: install(switch_id) sends nothing when the switch has no uplinks;
\* otherwise it sends two commands to that switch, first the delete of the
\* group with the fixed id, then the add of a select group with that id and
\* one output bucket per uplink port, in ascending port order; it sends no
\* other kind of group command, and whatever the switch had before, a group
\* or none, it ends with exactly the added group.
C17_DeleteThenAdd ==
    IsInstall =>
        LET up == Get(uplink_ports, ev.dpid)
        IN  IF up = {}
            THEN sent = <<>>
            ELSE /\ Len(sent) = 2
                 /\ \A i \in 1..2 :
                       /\ sent[i].type = "group_mod"
                       /\ sent[i].datapath = ev.dpid
                       /\ sent[i].group_id = ECMP_GROUP_ID
                 /\ sent[1].command = "delete"
                 /\ sent[2].command = "add"
                 /\ sent[2].group_type = "select"
                 /\ Len(sent[2].buckets) = Cardinality(up)
                 /\ {sent[2].buckets[i] : i \in DOMAIN sent[2].buckets} = up
                 /\ \A i, j \in DOMAIN sent[2].buckets :
                       i < j => sent[2].buckets[i] < sent[2].buckets[j]
                 /\ groups[ev.dpid] =
                       {[group_id |-> ECMP_GROUP_ID, group_type |-> "select",
                         buckets |-> sent[2].buckets]}

\* a group of more than one bucket has just been installed
C17_Witness ==
    /\ IsInstall
    /\ Len(sent) = 2
    /\ Len(sent[2].buckets) > 1

(***************************************************************************)
(* Properties of the exporter.                                             *)
(***************************************************************************)
\* the last step was one of the exporter's: a round of the collector, or the
\* ingestion of a statistics reply
IsMetrics == ev.type \in {"stats_collector", "stats_reply"}

StatsRequests == {"port_stats_request", "flow_stats_request", "group_stats_request"}

C19_GoneSwitchNeverUsed ==
    [][(ev.type = "switch_leave" /\ ev'.type = "packet_in") =>
          \A i \in DOMAIN sent' :
              /\ sent'[i].datapath # ev.dpid
              /\ (/\ IsRule(sent'[i])
                  /\ sent'[i].table_id = REMOTE_TABLE
                  /\ sent'[i].datapath \in Leaves
                  /\ ev.dpid \in Spines)
                    => net_links(sent'[i].datapath, ev.dpid) \notin Outputs(sent'[i])]_vars

(***************************************************************************)
(* Properties of the roles.                                                *)
(***************************************************************************)
\* the role derived from the maps of the last rebuild: spine if the switch has
\* no host-facing port, else leaf
DerivedRole(dpid) == IF host_ports[dpid] = {} THEN "spine" ELSE "leaf"

ConfiguredRole(dpid) == IF dpid \in Leaves THEN "leaf" ELSE "spine"

IsPoll == ev.type = "monitor_flow_stats"

\* ... in which the switch was asked for its flow statistics
Polled(dpid) == IsPoll /\ OFPFlowStatsRequest(dpid) \in Sent

\* a round asks every connected switch, and only those, once each, and ends
\* without an exception
PollsTheConnected ==
    IsPoll =>
        /\ ~raised
        /\ {sent[i].datapath : i \in DOMAIN sent} = datapaths
        /\ Len(sent) = Cardinality(datapaths)
        /\ \A i \in DOMAIN sent : sent[i] = OFPFlowStatsRequest(sent[i].datapath)

\* C21: every round of the polling loop asks every switch that is connected
\* for its statistics and passes over the others without an exception; the
\* loop goes on for ever, so a switch that stays connected is asked again and
\* again.
C21_PollingLiveness ==
    /\ []PollsTheConnected
    /\ \A dpid \in Switches : <>[](dpid \in datapaths) => []<>Polled(dpid)

\* a round has asked a spine and a leaf while another switch is not connected
C21_Witness ==
    /\ \E s \in Spines, l \in Leaves : Polled(s) /\ Polled(l)
    /\ datapaths # Switches
    /\ mac_table # <<>>

(***************************************************************************)
(* Properties of the notifications to self.metrics.                        *)
(***************************************************************************)
\* how many elements of a sequence satisfy Test
Count(seq, Test(_)) == Cardinality({i \in DOMAIN seq : Test(seq[i])})

\* C22: in every run of switch_features_handler and of packet_in_handler,
\* however it ends, the 'add' flow-mod notifications given for a switch are
\* as many as the rules sent to that switch, and the packet-out
\* notifications (flooded, forwarded) given for a switch are as many as the
\* packet-outs sent to it.  The totals over any sequence of events are then
\* equal too.
C22_InstallsAreNotified ==
    \A dpid \in Switches :
        /\ Count(notified, LAMBDA n : n = increment_flow_mod(dpid, "add"))
              = Count(sent, LAMBDA msg : IsRule(msg) /\ msg.datapath = dpid)
        /\ Count(notified, LAMBDA n : /\ n.dpid = dpid
                                      /\ n.metric \in {"packets_flooded",
                                                       "packets_forwarded"})
              = Count(sent, LAMBDA msg : IsPacketOut(msg) /\ msg.datapath = dpid)

\* a packet-in has ended with rules on its leaf and on a spine and a packet-out
\* on another leaf, each notified
C22_Witness ==
    /\ IsPacketIn
    /\ Len(notified) = 4
    /\ \E s \in Spines : increment_flow_mod(s, "add") \in Range(notified)
    /\ \E l \in Leaves \ {ev.dpid}, port \in LeafPorts :
          increment_packets_forwarded(l, port) \in Range(notified)

(***************************************************************************)
(* Properties of packet_in_handler on a destination recorded elsewhere.    *)
(***************************************************************************)
\* the last packet-in carried a decodable frame whose destination mac_table
\* records on another switch than its source
DestinationElsewhere ==
    /\ ToRemoteHost
    /\ ETHERNET \in ev.pkt.headers
    /\ mac_table[ev.pkt.dst].dpid # mac_table[ev.pkt.src].dpid

ToLocalHost ==
    /\ IsPacketIn
    /\ IPV4 \in ev.pkt.headers /\ ARP \notin ev.pkt.headers
    /\ ev.pkt.dst \in DOMAIN mac_table
    /\ mac_table[ev.pkt.dst].dpid = ev.dpid

\* C24 (as claimed): for a destination known on the switch of the packet-in,
\* a rule that matches exactly the destination MAC and outputs on the
\* destination's port is installed on that switch, and the frame is sent out
\* on that switch by that port.
C24_SameSwitchRule ==
    ToLocalHost =>
        /\ \E msg \in Sent : /\ IsRule(msg) /\ msg.datapath = ev.dpid
                             /\ msg.match = [eth_dst |-> ev.pkt.dst]
                             /\ Outputs(msg) = {mac_table[ev.pkt.dst].port}
        /\ \E msg \in Sent : /\ IsPacketOut(msg) /\ msg.datapath = ev.dpid
                             /\ Outputs(msg) = {mac_table[ev.pkt.dst].port}

\* C24 (as the handler does it): for a destination recorded on the leaf of
\* the packet-in, the one message is the rule for the way back: on that leaf,
\* in LOCAL_TABLE at LOW_PRIORITY, matching exactly the source MAC as
\* destination, with output on the ingress port.  No rule matches the
\* destination MAC and no packet-out is sent.
C24_SameSwitchReverseRuleOnly ==
    ToLocalHost =>
        /\ ~raised
        /\ sent = <<add_flow(ev.dpid, LOCAL_TABLE, LOW_PRIORITY,
                             [eth_dst |-> ev.pkt.src],
                             ApplyOutputs(<<ev.in_port>>), LONG_IDLE_TIME)>>

\* a UDP datagram between two hosts recorded on one leaf, the destination on
\* a host port
C24_Witness ==
    /\ ToLocalHost
    /\ UDP \in ev.pkt.headers
    /\ mac_table[ev.pkt.dst].port \in LeafHostPorts
    /\ Len(sent) = 1

(***************************************************************************)
(* Properties of packet_in_handler on a destination that is not recorded.  *)
(***************************************************************************)
\* the last packet-in carried an IPv4 packet to one host that mac_table does
\* not record
ToUnknownHost ==
    /\ IsPacketIn
    /\ IPV4 \in ev.pkt.headers /\ ARP \notin ev.pkt.headers
    /\ ev.pkt.dst \in MACs
    /\ ev.pkt.dst \notin DOMAIN mac_table

NotArp ==
    /\ IsPacketIn
    /\ ETHERNET \in ev.pkt.headers
    /\ ARP \notin ev.pkt.headers

\* the packet-outs among the messages of the last event that output on ALL
Floods == {i \in DOMAIN sent : IsPacketOut(sent[i]) /\ OFPP_ALL \in Outputs(sent[i])}

MaxSpines == 4

HashIps == {IpOf(m) : m \in MACs} \cup {<<10, 0, 0, 12>>, <<192, 168, 1, 1>>}

HashPorts == L4Ports \cup {50000}

\* what get_ipv4_packet_info returns: ICMP and every other protocol have
\* the ports 0
PacketInfos ==
    {<<proto, src_ip, dst_ip, src_port, dst_port>> :
        proto \in {TCP, UDP}, src_ip \in HashIps, dst_ip \in HashIps,
        src_port \in HashPorts, dst_port \in HashPorts}
    \cup {<<ICMP, src_ip, dst_ip, 0, 0>> : src_ip \in HashIps, dst_ip \in HashIps}

\* the call select_spine_from_packet_info(packet_info, num_spines) and its
\* return value
SelectSpine ==
    \E packet_info \in PacketInfos, num_spines \in 1..MaxSpines :
        /\ ev' = Event("select_spine", 0, 0, NoFrame)
        /\ sent' = <<[type |-> "select_spine", packet_info |-> packet_info,
                      num_spines |-> num_spines,
                      index |-> select_spine_from_packet_info(packet_info, num_spines)]>>
        /\ UNCHANGED <<mac_table, flow_entries_count, datapaths, raised, notified, topo, hosts>>

SpecHash == Init /\ [][SelectSpine]_vars

\* the packet info of the opposite direction of a flow
Reversed(packet_info) ==
    <<packet_info[1], packet_info[3], packet_info[2], packet_info[5], packet_info[4]>>

\* C28: select_spine_from_packet_info returns the same index for a flow and
\* for its opposite direction (source and destination address swapped,
\* source and destination port swapped), whatever the number of spines; the
\* index is one of 0 .. num_spines - 1.
C28_SpineSelectionSymmetric ==
    ev.type = "select_spine" =>
        /\ sent[1].index =
              select_spine_from_packet_info(Reversed(sent[1].packet_info),
                                            sent[1].num_spines)
        /\ sent[1].index \in 0..(sent[1].num_spines - 1)

\* a call on a TCP flow between two addresses and two ports that differ, in a
\* fabric of three spines, where the spine is not the first one
C28_Witness ==
    /\ ev.type = "select_spine"
    /\ sent[1].packet_info[1] = TCP
    /\ sent[1].packet_info[2] # sent[1].packet_info[3]
    /\ sent[1].packet_info[4] # sent[1].packet_info[5]
    /\ sent[1].num_spines = 3
    /\ sent[1].index # 0

(***************************************************************************)
(* Properties of the entries installed on the spine.                       *)
(***************************************************************************)
\* the rules the last handler sent to a spine
SpineRules == {i \in DOMAIN sent : IsRule(sent[i]) /\ sent[i].datapath \in Spines}

\* C29: an IPv4 frame to a host recorded on another leaf, handled to the
\* end, installs two entries on the selected spine: one for the flow from
\* source to destination, and one for the opposite direction.
C29_TwoSpineEntries ==
    (ToRemoteHost /\ IPV4 \in ev.pkt.headers /\ ~raised)
    => \E i, j \in SpineRules :
          /\ i # j
          /\ sent[i].datapath = HashedSpine(ev.pkt)
          /\ sent[j].datapath = HashedSpine(ev.pkt)
          /\ sent[i].match.ipv4_src = ev.pkt.src_ip
          /\ sent[i].match.ipv4_dst = ev.pkt.dst_ip
          /\ sent[j].match.ipv4_src = ev.pkt.dst_ip
          /\ sent[j].match.ipv4_dst = ev.pkt.src_ip

(***************************************************************************)
(* Properties of the order of the messages of switch_features_handler.     *)
(***************************************************************************)
\* the flow-mods among the messages of the last handler, in the order sent
IsFlowMod(msg) == msg.type = "flow_mod"

FlowModsSent == SelectSeq(sent, IsFlowMod)

\* C30: on a switch's features message the controller sends it, in this
\* order, one deletion of all flows of all tables and then the table-miss
\* entries, each matching anything at MIN_PRIORITY: for a leaf exactly two,
\* LOCAL_TABLE with goto REMOTE_TABLE and REMOTE_TABLE with output to ALL and
\* to the controller; for a spine exactly one, with no instruction, so that
\* what misses on a spine is dropped and not sent to the controller.
C30_DeleteThenTableMiss ==
    IsConnect =>
        /\ FlowModsSent[1].command = "delete"
        /\ FlowModsSent[1].table_id = OFPTT_ALL
        /\ FlowModsSent[1].match = [any |-> TRUE]
        /\ \A i \in 2..Len(FlowModsSent) :
              /\ FlowModsSent[i].command = "add"
              /\ FlowModsSent[i].match = [any |-> TRUE]
              /\ FlowModsSent[i].priority = MIN_PRIORITY
        /\ \A i \in DOMAIN FlowModsSent : FlowModsSent[i].datapath = ev.dpid
        /\ IF ev.dpid \in Leaves
           THEN /\ Len(FlowModsSent) = 3
                /\ FlowModsSent[2].table_id = LOCAL_TABLE
                /\ FlowModsSent[2].instructions = <<[goto_table |-> REMOTE_TABLE]>>
                /\ FlowModsSent[3].table_id = REMOTE_TABLE
                /\ Len(FlowModsSent[3].instructions) = 1
                /\ FlowModsSent[3].instructions[1].apply_actions
                      = <<[output |-> OFPP_ALL], [output |-> OFPP_CONTROLLER]>>
           ELSE /\ Len(FlowModsSent) = 2
                /\ FlowModsSent[2].instructions = <<>>
                /\ OFPP_CONTROLLER \notin Outputs(FlowModsSent[2])

\* a leaf connects after a spine did
C30_Witness ==
    /\ IsConnect
    /\ ev.dpid \in Leaves
    /\ datapaths \cap Spines # {}
    /\ Len(FlowModsSent) = 3

(***************************************************************************)
(* Properties of the rule for the way back.                                *)
(***************************************************************************)
\* a packet-in that takes the IPv4 branch of the handler
IsIpv4 ==
    /\ IsPacketIn
    /\ ETHERNET \in ev.pkt.headers
    /\ ARP \notin ev.pkt.headers
    /\ IPV4 \in ev.pkt.headers

\* C31: every IPv4 packet-in from source MAC s on switch d, port p installs
\* on d a LOCAL_TABLE rule that matches eth_dst = s and outputs on p, while
\* mac_table[s] is (port p, dpid d); the rule is the first message of the
\* handler, whether the destination is recorded or not, so it comes before
\* everything that depends on the destination.
C31_ReverseRuleAgreesWithTable ==
    IsIpv4 =>
        /\ sent # <<>>
        /\ IsRule(sent[1])
        /\ sent[1].datapath = ev.dpid
        /\ sent[1].table_id = LOCAL_TABLE
        /\ sent[1].match = [eth_dst |-> ev.pkt.src]
        /\ Outputs(sent[1]) = {ev.in_port}
        /\ mac_table[ev.pkt.src] = [port |-> ev.in_port, dpid |-> ev.dpid]
        /\ Outputs(sent[1]) = {mac_table[sent[1].match.eth_dst].port}
        /\ sent[1].datapath = mac_table[sent[1].match.eth_dst].dpid
        /\ \A i \in 2..Len(sent) :
              IsRule(sent[i]) => "eth_dst" \notin DOMAIN sent[i].match

\* an IPv4 frame that came in on an uplink, to a destination that is not
\* recorded, got the rule and then more messages
C31_Witness ==
    /\ IsIpv4
    /\ ev.pkt.dst \notin DOMAIN mac_table
    /\ ev.in_port \in LeafUplinkPorts
    /\ Len(sent) > 1

(***************************************************************************)
(* Properties of the order of the messages for a remote destination.       *)
(***************************************************************************)
\* the packet-outs among the messages of the last handler
PacketOuts == {i \in DOMAIN sent : IsPacketOut(sent[i])}

\* C32: for an IPv4 packet-in whose destination is recorded on another leaf,
\* the handler sends the rule of REMOTE_TABLE on the originating leaf, then
\* the rule on the selected spine, then the packet-out of the frame on the
\* destination's leaf to the destination's recorded port; there is exactly
\* one packet-out, and it comes after both rules.
C32_RulesThenOnePacketOut ==
    (IsIpv4 /\ ToRemoteHost) =>
        /\ Cardinality(PacketOuts) = 1
        /\ \E i, j, k \in DOMAIN sent :
              /\ i < j /\ j < k
              /\ IsRule(sent[i]) /\ sent[i].datapath = ev.dpid
              /\ sent[i].table_id = REMOTE_TABLE
              /\ IsRule(sent[j]) /\ sent[j].datapath = HashedSpine(ev.pkt)
              /\ PacketOuts = {k}
              /\ sent[k].datapath = mac_table[ev.pkt.dst].dpid
              /\ Outputs(sent[k]) = {mac_table[ev.pkt.dst].port}
              /\ sent[k].data = ev.pkt

(***************************************************************************)
(* Properties of the path the rules of one packet-in make.                 *)
(***************************************************************************)
\* the messages of the last handler that went to a spine
ToSpines == {i \in DOMAIN sent : sent[i].datapath \in Spines}

IsFlooded ==
    \/ IsArp
    \/ IsIpv4 /\ ev.pkt.dst \notin DOMAIN mac_table

\* C34: a flooded packet-in yields exactly one packet-out, with the
\* controller as in_port and the output ALL, on every leaf of the configured
\* network but the one the packet-in came from, and no packet-out on that
\* one or on a spine.
C34_FloodTargetSet ==
    IsFlooded =>
        /\ \A leaf \in Leaves \ {ev.dpid} :
              Cardinality({i \in PacketOuts :
                             /\ sent[i].datapath = leaf
                             /\ sent[i].in_port = OFPP_CONTROLLER
                             /\ Outputs(sent[i]) = {OFPP_ALL}}) = 1
        /\ \A i \in PacketOuts : sent[i].datapath \in Leaves \ {ev.dpid}
        /\ Cardinality(PacketOuts) = NumLeaves - 1

(***************************************************************************)
(* Properties of mac_table over a run.                                     *)
(***************************************************************************)
\* C35: mac_table starts empty; a packet-in with a decodable Ethernet header
\* adds its source MAC if it is not there and sets that MAC's entry to the
\* port and switch of the packet-in, the other entries staying as they are;
\* nothing else changes the table and no entry is ever removed.  So the
\* table holds exactly the source MACs seen so far, each with the port and
\* switch of the most recent packet-in it was the source of, and a host that
\* moves is recorded anew at its new switch and port.
C35_LastWriterWins ==
    /\ mac_table = <<>>
    /\ [][/\ DOMAIN mac_table \subseteq DOMAIN mac_table'
          /\ IF ev'.type = "packet_in" /\ ETHERNET \in ev'.pkt.headers
             THEN /\ DOMAIN mac_table' = DOMAIN mac_table \cup {ev'.pkt.src}
                  /\ mac_table'[ev'.pkt.src] = [port |-> ev'.in_port, dpid |-> ev'.dpid]
                  /\ \A m \in DOMAIN mac_table \ {ev'.pkt.src} :
                        mac_table'[m] = mac_table[m]
             ELSE mac_table' = mac_table]_vars

\* both MACs are recorded at the same host port of the same leaf: one of the
\* two hosts has been recorded anew, away from where it was
C35_Witness ==
    /\ IsPacketIn
    /\ ETHERNET \in ev.pkt.headers
    /\ ev.in_port \in LeafHostPorts
    /\ DOMAIN mac_table = MACs
    /\ \A m \in MACs : mac_table[m] = [port |-> ev.in_port, dpid |-> ev.dpid]

(***************************************************************************)
(* Properties of the range of select_spine_from_packet_info.               *)
(***************************************************************************)
\* C36: for a packet info with ports that are not negative and a number of
\* spines of at least 1, select_spine_from_packet_info returns an integer i
\* with 0 <= i < num_spines, so that net.spines[i], a list of num_spines
\* elements indexed from 0, has an element i.
C36_SpineIndexValid ==
    (ev.type = "select_spine" /\ sent[1].num_spines >= 1
        /\ sent[1].packet_info[4] >= 0 /\ sent[1].packet_info[5] >= 0)
    => /\ sent[1].index \in Int
       /\ 0 <= sent[1].index
       /\ sent[1].index < sent[1].num_spines
       /\ sent[1].index + 1 \in DOMAIN [i \in 1..sent[1].num_spines |-> i]

\* a call that returned the last index of the largest fabric
C36_Witness ==
    /\ ev.type = "select_spine"
    /\ sent[1].num_spines = MaxSpines
    /\ sent[1].index = MaxSpines - 1

(***************************************************************************)
(* SpineLeaf3.flow_stats_reply_handler.  A reply is the list of its flow   *)
(* statistics records, of which the handler reads the table id alone.  The *)
(* replies come from a spine, from a leaf and from a switch that is in     *)
(* neither list of the configured network, every one of them connected.    *)
(***************************************************************************)
\* number of records of a flow-stats reply
MaxStats == 2

\* a switch id that net.spines and net.leaves do not hold
UnknownDpid == NumSpines + NumLeaves + 1

StatsDpids == {net_spines[1], net_leaves[1], UnknownDpid}

\* a table id that no switch of the fabric is given rules for
UnexpectedTable == REMOTE_TABLE + 1

\* event.msg.body: the table ids of the records, in order
StatsBodies ==
    UNION {[1..n -> {LOCAL_TABLE, REMOTE_TABLE, UnexpectedTable}] : n \in 0..MaxStats}

\* the tables the handler always sets a count for
ExpectedTables(dpid) ==
    IF dpid \in Leaves THEN {LOCAL_TABLE, REMOTE_TABLE} ELSE {ENTRY_TABLE}

\* (mutant) the count of a table grows by the records of every reply
flow_stats_reply_handler_accumulate(dpid, body) ==
    LET table_flows == [t \in {body[i] : i \in DOMAIN body} |->
                           Cardinality({i \in DOMAIN body : body[i] = t})]
        keys == {<<dpid, t>> : t \in DOMAIN table_flows \cup ExpectedTables(dpid)}
    IN  /\ dpid \in datapaths
        /\ ev' = [type |-> "flow_stats_reply", dpid |-> dpid, in_port |-> 0,
                  pkt |-> NoFrame, body |-> body]
        /\ flow_entries_count' =
              [k \in DOMAIN flow_entries_count \cup keys |->
                  IF k \in keys
                  THEN (IF k \in DOMAIN flow_entries_count
                        THEN flow_entries_count[k] ELSE 0)
                       + (IF k[2] \in DOMAIN table_flows THEN table_flows[k[2]] ELSE 0)
                  ELSE flow_entries_count[k]]
        /\ sent' = <<>>
        /\ raised' = FALSE
        /\ notified' = <<>>
        /\ UNCHANGED <<mac_table, datapaths, topo, hosts>>

\* flow_stats_reply_handler: the records are counted by table, the counts
\* stored under (dpid, table), and the tables a leaf or a spine has that the
\* reply has no record of are stored with 0
flow_stats_reply_handler(dpid, body) ==
    LET table_flows == [t \in {body[i] : i \in DOMAIN body} |->
                           Cardinality({i \in DOMAIN body : body[i] = t})]
        keys == {<<dpid, t>> : t \in DOMAIN table_flows \cup ExpectedTables(dpid)}
    IN  /\ dpid \in datapaths
        /\ ev' = [type |-> "flow_stats_reply", dpid |-> dpid, in_port |-> 0,
                  pkt |-> NoFrame, body |-> body]
        /\ flow_entries_count' =
              [k \in DOMAIN flow_entries_count \cup keys |->
                  IF k \in keys
                  THEN IF k[2] \in DOMAIN table_flows THEN table_flows[k[2]] ELSE 0
                  ELSE flow_entries_count[k]]
        /\ sent' = <<>>
        /\ raised' = FALSE
        /\ notified' = <<>>
        /\ UNCHANGED <<mac_table, datapaths, topo, hosts>>

InitStats ==
    /\ mac_table = <<>>
    /\ datapaths = StatsDpids
    /\ ev = Event("init", 0, 0, NoFrame)
    /\ sent = <<>>
    /\ raised = FALSE
    /\ notified = <<>>
    /\ flow_entries_count = <<>>
    /\ TopoInit
    /\ HostsInit

NextStats ==
    \E dpid \in StatsDpids, body \in StatsBodies : flow_stats_reply_handler(dpid, body)

SpecStats == InitStats /\ [][NextStats]_vars

\* the last event was a flow-stats reply
IsFlowStatsReply == ev.type = "flow_stats_reply"

\* the records of the last reply that name table t
RecordsOf(t) == {i \in DOMAIN ev.body : ev.body[i] = t}

\* C37: after the handler has processed a reply of switch d, the count
\* stored for (d, t) is the number of records of the reply with table id t,
\* for every table t that d is expected to have (LOCAL_TABLE and REMOTE_TABLE
\* for a leaf, ENTRY_TABLE for any other switch), hence 0 where the reply has
\* no record of t; a reply of a switch that is in neither list of the
\* network, or with a table id no switch is given, raises nothing.
C37_FlowStatsAccounting ==
    IsFlowStatsReply =>
        /\ ~raised
        /\ \A t \in ExpectedTables(ev.dpid) :
              /\ <<ev.dpid, t>> \in DOMAIN flow_entries_count
              /\ flow_entries_count[<<ev.dpid, t>>] = Cardinality(RecordsOf(t))
        /\ \A t \in {ev.body[i] : i \in DOMAIN ev.body} :
              flow_entries_count[<<ev.dpid, t>>] = Cardinality(RecordsOf(t))

\* a leaf has answered with records of LOCAL_TABLE and of an unexpected
\* table and none of REMOTE_TABLE, whose count is 0, after a switch that is
\* not of the network had answered
C37_Witness ==
    /\ IsFlowStatsReply
    /\ ev.dpid \in Leaves
    /\ RecordsOf(REMOTE_TABLE) = {}
    /\ RecordsOf(LOCAL_TABLE) # {}
    /\ RecordsOf(UnexpectedTable) # {}
    /\ flow_entries_count[<<ev.dpid, REMOTE_TABLE>>] = 0
    /\ <<UnknownDpid, ENTRY_TABLE>> \in DOMAIN flow_entries_count

=============================================================================
